---------------------------- MODULE Spec2Model ----------------------------
(***************************************************************************)
(* Model of zerver/lib/bugdown/fenced_code.py: FencedBlockPreprocessor.run *)
(* and its helpers.  Text is a sequence of one-character strings; the two  *)
(* regular expressions are evaluated position by position, as the regex    *)
(* engine does (leftmost start, greedy runs, lazy body).                   *)
(***************************************************************************)
EXTENDS Integers, Sequences, FiniteSets, TLC

VARIABLES
    lines,      \* argument of the current call of run()
    text,       \* local text of run()
    fence,      \* local fence of run(): result of FENCE_RE.search
    pc,         \* position in run(): "loop", "repair", "final", "done"
    ret,        \* return value of the last completed run()
    stash,      \* markdown.htmlStash: the stored markup, in store order
    conf,       \* self.codehilite_conf ({} is FALSE)
    checked,    \* self.checked_for_codehilite
    registered, \* a CodeHiliteExtension is among markdown.registeredExtensions
    calls,      \* log of the process_fence calls of the current run()
    runs,       \* number of run() calls started
    stored0     \* Len(stash) when the current run() started

vars == <<lines, text, fence, pc, ret, stash, conf, checked, registered,
          calls, runs, stored0>>

\* ------------------------------------------------------------ bounds
MaxLines == 4
MaxQuoteLines == 5
MaxEscLines == 4
MaxRepairLines == 4

\* ------------------------------------------------------------ characters
NL == "\n"
SP == " "
STX == "STX"
ETX == "ETX"
\* the backtick, written BQ: a string of the module cannot hold the character
BQ == "BQ"
FenceChars == {"~", BQ}
LangChars ==
    {"a","b","c","d","e","f","g","h","i","j","k","l","m","n","o","p","q","r",
     "s","t","u","v","w","x","y","z",
     "A","B","C","D","E","F","G","H","I","J","K","L","M","N","O","P","Q","R",
     "S","T","U","V","W","X","Y","Z",
     "0","1","2","3","4","5","6","7","8","9","_","+","-"}

Min(S) == CHOOSE x \in S : \A y \in S : x <= y
Max(S) == CHOOSE x \in S : \A y \in S : x >= y

\* ------------------------------------------------------------ str methods
\* str.split(sep): cut at the non-overlapping occurrences of sep, left to right
RECURSIVE Split(_, _)
Split(t, sep) ==
    LET n == Len(sep)
        hits == {i \in 1..(Len(t) - n + 1) : SubSeq(t, i, i + n - 1) = sep}
    IN  IF hits = {} THEN <<t>>
        ELSE LET i == Min(hits)
             IN  <<SubSeq(t, 1, i - 1)>> \o Split(SubSeq(t, i + n, Len(t)), sep)

\* sep.join(parts)
RECURSIVE Join(_, _)
Join(parts, sep) ==
    IF parts = <<>> THEN <<>>
    ELSE IF Len(parts) = 1 THEN parts[1]
    ELSE parts[1] \o sep \o Join(Tail(parts), sep)

\* str.replace(c, r) for a one-character c
RECURSIVE Replace(_, _, _)
Replace(t, c, r) ==
    IF t = <<>> THEN <<>>
    ELSE (IF Head(t) = c THEN r ELSE <<Head(t)>>) \o Replace(Tail(t), c, r)

\* ------------------------------------------------------------ regex pieces
\* a greedy run over a character class S: the first index not in S
SkipWhile(t, i, S) ==
    CHOOSE j \in i..(Len(t) + 1) :
        /\ \A k \in i..(j - 1) : t[k] \in S
        /\ (j = Len(t) + 1 \/ t[j] \notin S)

\* ^ and $ under re.MULTILINE
AtLineStart(t, i) == i = 1 \/ t[i - 1] = NL
AtLineEnd(t, i) == i = Len(t) + 1 \/ t[i] = NL

NoMatch == [start |-> 0]

\* an optional character c at index i: the index after it
OptChar(t, i, c) == IF i <= Len(t) /\ t[i] = c THEN i + 1 ELSE i

\* the lang group at index d and the optional closing brace after it
HeadMatch(t, i, e, d, l) ==
    [start |-> i, fence |-> SubSeq(t, i, e - 1), lang |-> SubSeq(t, d, l - 1),
     rest |-> OptChar(t, l, "}")]

HeadLang(t, i, e, d) == HeadMatch(t, i, e, d, SkipWhile(t, d, LangChars))

\* the fence group is t[i..e-1]: spaces, an optional brace, an optional dot
HeadTag(t, i, e) ==
    IF e - i < 3 THEN NoMatch
    ELSE HeadLang(t, i, e,
                  OptChar(t, OptChar(t, SkipWhile(t, e, {SP}), "{"), "."))

\* The head shared by both patterns, tried at index i: the fence group (at a
\* line start, three or more of one fence character), spaces, an optional
\* brace, an optional dot, the lang group, an optional closing brace.
\* rest is the index after the optional closing brace.
FenceHead(t, i) ==
    IF ~(i <= Len(t) /\ AtLineStart(t, i) /\ t[i] \in FenceChars) THEN NoMatch
    ELSE HeadTag(t, i, SkipWhile(t, i, {t[i]}))

\* FENCE_RE after its head h: the end of the line
FenceTail(t, h) == IF h.start # 0 /\ AtLineEnd(t, h.rest) THEN h ELSE NoMatch

\* FENCE_RE tried at index i
FenceAt(t, i) == FenceTail(t, FenceHead(t, i))

\* the leftmost of the start indexes S at which a pattern matches
Leftmost(S) == IF S = {} THEN 0 ELSE Min(S)

\* FENCE_RE.search(text): the leftmost match
FenceFrom(t, i) == IF i = 0 THEN NoMatch ELSE FenceAt(t, i)

\* the search returning the last fence line instead of the first
FENCE_RE_search_last(t) ==
    FenceFrom(t, IF {i \in 1..Len(t) : FenceAt(t, i).start # 0} = {} THEN 0
                 ELSE Max({i \in 1..Len(t) : FenceAt(t, i).start # 0}))

FENCE_RE_search(t) ==
    FenceFrom(t, Leftmost({i \in 1..Len(t) : FenceAt(t, i).start # 0}))

\* CloseAt without the end of the line after the marker: a longer run closes
CloseAtPrefix(t, j, f) ==
    /\ j > 1 /\ t[j - 1] = NL
    /\ j + Len(f) - 1 <= Len(t)
    /\ SubSeq(t, j, j + Len(f) - 1) = f

\* The tail of FENCED_BLOCK_RE tried at index j: a newline just before j,
\* the text of the fence group again, spaces, the end of the line
CloseAt(t, j, f) ==
    /\ j > 1 /\ t[j - 1] = NL
    /\ j + Len(f) - 1 <= Len(t)
    /\ SubSeq(t, j, j + Len(f) - 1) = f
    /\ AtLineEnd(t, SkipWhile(t, j + Len(f), {SP}))

\* BlockMatch ending where the code group ends: the closing fence stays
BlockMatchOpenEnded(t, h, cs, j) ==
    IF j = 0 THEN NoMatch
    ELSE [start |-> h.start, end |-> j - 1,
          fence |-> h.fence, lang |-> h.lang, code |-> SubSeq(t, cs, j - 1)]

\* the match of FENCED_BLOCK_RE with head h, code from cs, close at j
BlockMatch(t, h, cs, j) ==
    IF j = 0 THEN NoMatch
    ELSE [start |-> h.start, end |-> SkipWhile(t, j + Len(h.fence), {SP}) - 1,
          fence |-> h.fence, lang |-> h.lang, code |-> SubSeq(t, cs, j - 1)]

\* the lazy code group from cs: it ends at the nearest close
BlockCode(t, h, cs) ==
    BlockMatch(t, h, cs, Leftmost({j \in cs..Len(t) : CloseAt(t, j, h.fence)}))

\* FENCED_BLOCK_RE after its head h: spaces and the newline at s2
BlockLine(t, h, s2) ==
    IF ~(s2 <= Len(t) /\ t[s2] = NL) THEN NoMatch ELSE BlockCode(t, h, s2 + 1)

BlockTail(t, h) ==
    IF h.start = 0 THEN NoMatch ELSE BlockLine(t, h, SkipWhile(t, h.rest, {SP}))

\* FENCED_BLOCK_RE tried at index i
BlockAt(t, i) == BlockTail(t, FenceHead(t, i))

\* FENCED_BLOCK_RE.search(text): the leftmost match
BlockFrom(t, i) == IF i = 0 THEN NoMatch ELSE BlockAt(t, i)

\* the search returning the last match instead of the first
Rightmost(S) == IF S = {} THEN 0 ELSE Max(S)
FENCED_BLOCK_RE_search_last(t) ==
    BlockFrom(t, Rightmost({i \in 1..Len(t) : BlockAt(t, i).start # 0}))

FENCED_BLOCK_RE_search(t) ==
    BlockFrom(t, Leftmost({i \in 1..Len(t) : BlockAt(t, i).start # 0}))

\* ------------------------------------------------------------ formatting
CODE_WRAP_OPEN == <<"<","p","r","e",">","<","c","o","d","e">>
CODE_WRAP_CLOSE == <<"<","/","c","o","d","e",">","<","/","p","r","e",">">>
\* CODE_WRAP % (langclass, escaped)
CODE_WRAP(langclass, escaped) ==
    CODE_WRAP_OPEN \o langclass \o <<">">> \o escaped \o CODE_WRAP_CLOSE
\* LANG_TAG % lang
LANG_TAG(lang) == <<" ","c","l","a","s","s","=","\"">> \o lang \o <<"\"">>

QUOTE == <<"q","u","o","t","e">>
QUOTED == <<"q","u","o","t","e","d">>

\* _escape with the ampersand replaced last
escape_amp_last(txt) ==
    Replace(Replace(Replace(Replace(txt, "<", <<"&","l","t",";">>),
                            ">", <<"&","g","t",";">>),
                    "\"", <<"&","q","u","o","t",";">>),
            "&", <<"&","a","m","p",";">>)

\* _escape: four replace passes, in the order of the source
escape(txt) ==
    Replace(Replace(Replace(Replace(txt, "&", <<"&","a","m","p",";">>),
                            "<", <<"&","l","t",";">>),
                    ">", <<"&","g","t",";">>),
            "\"", <<"&","q","u","o","t",";">>)

\* CodeHilite(...).hilite() of the codehilite extension: markup the model
\* keeps opaque, built from the text and the lang it is given
hilite(lang, txt) == <<"HILITE">> \o lang \o <<":">> \o txt

\* format_code: the lazy look-up of the codehilite configuration
lookup_conf(chk, cf, reg) == IF chk THEN cf ELSE reg

\* format_code: the markup, given the configuration after the look-up
format_code(cf, langclass, lang, txt) ==
    IF cf THEN hilite(lang, txt) ELSE CODE_WRAP(langclass, escape(txt))

\* "> " + line for line in lines if line != ''
quote_lines(keep) == [k \in 1..Len(keep) |-> <<">", SP>> \o keep[k]]

quote_paragraph(paragraph) ==
    Join(quote_lines(SelectSeq(Split(paragraph, <<NL>>), LAMBDA l : l # <<>>)),
         <<NL>>)

quote_paragraphs(paragraphs) ==
    [k \in 1..Len(paragraphs) |-> quote_paragraph(paragraphs[k])]

\* format_quote joining the paragraphs with one newline
format_quote_flat(txt) == Join(quote_paragraphs(Split(txt, <<NL, NL>>)), <<NL>>)

format_quote(txt) == Join(quote_paragraphs(Split(txt, <<NL, NL>>)), <<NL, NL>>)

\* markdown.htmlStash.store(code, safe=True): the placeholder of the k-th
\* stored markup (k counts from 0)
Digits == <<"0","1","2","3","4","5","6","7","8","9">>
Placeholder(k) == <<STX,"w","z","x","h","z","d","k",":", Digits[k + 1], ETX>>

\* format_fence, lines 147-149: the markup is stored, with the
\* configuration cf2 that format_code leaves
store_code(m, st, langclass, cf2) ==
    [out |-> Placeholder(Len(st)),
     stash |-> Append(st, format_code(cf2, langclass, m.lang, m.code)),
     key |-> Len(st) + 1, checked |-> TRUE, conf |-> cf2]

\* format_fence(m) with the stash st and the configuration (chk, cf): the
\* replacement text, and the stash and configuration it leaves
format_fence(m, st, chk, cf, reg) ==
    IF m.lang # <<>> /\ m.lang \in {QUOTE, QUOTED}
    THEN [out |-> format_quote(m.code), stash |-> st, key |-> 0,
          checked |-> chk, conf |-> cf]
    ELSE store_code(m, st, IF m.lang # <<>> THEN LANG_TAG(m.lang) ELSE <<>>,
                    lookup_conf(chk, cf, reg))

\* process_fence without the two newlines
process_fence_tight(m, t, fence_text) ==
    SubSeq(t, 1, m.start - 1) \o fence_text \o SubSeq(t, m.end + 1, Len(t))

\* process_fence keeping the matched span before the token
process_fence_keep(m, t, fence_text) ==
    SubSeq(t, 1, m.end) \o <<NL>> \o fence_text \o <<NL>>
        \o SubSeq(t, m.end + 1, Len(t))

\* process_fence: '%s\n%s\n%s' % (text[:m.start()], fence_text, text[m.end():])
process_fence(m, t, fence_text) ==
    SubSeq(t, 1, m.start - 1) \o <<NL>> \o fence_text \o <<NL>>
        \o SubSeq(t, m.end + 1, Len(t))

\* lines 172-175: where the synthesized closing fence goes
append_fence(t, f) ==
    IF Len(t) >= 2 /\ SubSeq(t, Len(t) - 1, Len(t)) = <<NL, NL>>
    THEN SubSeq(t, 1, Len(t) - 2) \o <<NL>> \o f \o <<NL, NL>>
    ELSE t \o f

\* ------------------------------------------------------------ inputs
Tilde3 == <<"~","~","~">>
Tilde4 == <<"~","~","~","~">>
Tick3 == <<BQ, BQ, BQ>>

Docs(V, n) == UNION {[1..k -> V] : k \in 1..n}

\* fence lines of two lengths and of both characters, a text line, a blank line
VocabRun == {Tilde3, Tilde4, Tick3, <<"a">>, <<>>}
\* quote openers of both spellings, their closer, a text line, a blank line
VocabQuote == {Tilde3 \o QUOTE, Tick3 \o QUOTED, Tilde3, <<"a">>, <<>>}
\* a tagged and an untagged fence, and body lines with the escaped characters
VocabEsc == {Tilde3, Tilde3 \o <<"a">>, <<"<", "&">>, <<"&", "l", "t", ";">>,
             <<"\"", ">">>}
\* fences of both characters, an opener with spaces after its tag
VocabRepair == {Tilde3, Tick3, Tilde3 \o <<"a", SP>>, <<"a">>, <<>>}

\* ------------------------------------------------------------ run()
InitDocs(D) ==
    /\ lines \in D
    /\ text = Join(lines, <<NL>>)
    /\ fence = NoMatch
    /\ pc = "loop"
    /\ ret = <<>>
    /\ stash = <<>>
    /\ conf = FALSE
    /\ checked = FALSE
    /\ registered \in BOOLEAN
    /\ calls = <<>>
    /\ runs = 1
    /\ stored0 = 0

Init == InitDocs(Docs(VocabRun, MaxLines))

\* the call record of one process_fence
Call(phase, m, r) ==
    [phase |-> phase, start |-> m.start, end |-> m.end, fence |-> m.fence,
     lang |-> m.lang, code |-> m.code, out |-> r.out, key |-> r.key]

\* process_fence(m, text) with the result r of format_fence
Spliced(phase, m, r) ==
    /\ text' = process_fence(m, text, r.out)
    /\ stash' = r.stash
    /\ checked' = r.checked
    /\ conf' = r.conf
    /\ calls' = Append(calls, Call(phase, m, r))

Processed(phase, m) ==
    Spliced(phase, m, format_fence(m, stash, checked, conf, registered))

\* lines 160-162: a region is found and replaced
LoopFound(m) == m.start # 0 /\ Processed("loop", m)

LoopMatch ==
    /\ pc = "loop"
    /\ LoopFound(FENCED_BLOCK_RE_search(text))
    /\ UNCHANGED <<lines, fence, pc, ret, registered, runs, stored0>>

\* lines 163-167: no region is left; the search for a fence line
LoopExit ==
    /\ pc = "loop"
    /\ FENCED_BLOCK_RE_search(text).start = 0
    /\ fence' = FENCE_RE_search(text)
    /\ pc' = "repair"
    /\ UNCHANGED <<lines, text, ret, stash, conf, checked, registered, calls,
                   runs, stored0>>

\* lines 168, 180: no fence line; return
NoRepair ==
    /\ pc = "repair"
    /\ fence.start = 0
    /\ ret' = Split(text, <<NL>>)
    /\ pc' = "done"
    /\ UNCHANGED <<lines, text, fence, stash, conf, checked, registered, calls,
                   runs, stored0>>

\* lines 168-175: the closing fence is synthesized
RepairAppend ==
    /\ pc = "repair"
    /\ fence.start # 0
    /\ text' = append_fence(text, fence.fence)
    /\ pc' = "final"
    /\ UNCHANGED <<lines, fence, ret, stash, conf, checked, registered, calls,
                   runs, stored0>>

\* lines 176-180: one more search, at most one more replacement; return
FinalFound(m) ==
    IF m.start # 0 THEN Processed("repair", m)
    ELSE UNCHANGED <<text, stash, checked, conf, calls>>

RepairMatch ==
    /\ pc = "final"
    /\ FinalFound(FENCED_BLOCK_RE_search(text))
    /\ ret' = Split(text', <<NL>>)
    /\ pc' = "done"
    /\ UNCHANGED <<lines, fence, registered, runs, stored0>>

\* run() is called again, on the lines the first call returned
Rerun ==
    /\ pc = "done"
    /\ runs = 1
    /\ lines' = ret
    /\ text' = Join(ret, <<NL>>)
    /\ fence' = NoMatch
    /\ pc' = "loop"
    /\ calls' = <<>>
    /\ runs' = 2
    /\ stored0' = Len(stash)
    /\ UNCHANGED <<ret, stash, conf, checked, registered>>

Next ==
    \/ LoopMatch
    \/ LoopExit
    \/ NoRepair
    \/ RepairAppend
    \/ RepairMatch
    \/ Rerun

Spec == Init /\ [][Next]_vars

InitQuote == InitDocs(Docs(VocabQuote, MaxQuoteLines))
SpecQuote == InitQuote /\ [][Next]_vars

InitEsc == InitDocs(Docs(VocabEsc, MaxEscLines))
SpecEsc == InitEsc /\ [][Next]_vars

InitRepair == InitDocs(Docs(VocabRepair, MaxRepairLines))
SpecRepair == InitRepair /\ [][Next]_vars

\* ------------------------------------------------------------ properties
\* the start indexes of the lines of t that FENCE_RE matches
FenceLines(t) == {i \in 1..Len(t) : FenceAt(t, i).start # 0}
FenceCount(t) == Cardinality(FenceLines(t))
\* a single line l is one that FENCE_RE matches
IsFenceLine(l) == FenceAt(l, 1).start # 0
\* the number of occurrences of sub in t
Occurs(t, sub) ==
    Cardinality({i \in 1..(Len(t) - Len(sub) + 1) :
                    SubSeq(t, i, i + Len(sub) - 1) = sub})
\* the number of the line that holds index p of t
LineOf(t, p) == 1 + Cardinality({i \in 1..(p - 1) : t[i] = NL})
Spaces(l) == \A k \in 1..Len(l) : l[k] = SP
\* the line l is the marker f followed by spaces only
IsCloseLine(l, f) ==
    /\ Len(l) >= Len(f)
    /\ SubSeq(l, 1, Len(f)) = f
    /\ Spaces(SubSeq(l, Len(f) + 1, Len(l)))
\* the run of its first character that starts the line l
Marker(l) == IF l = <<>> THEN <<>> ELSE SubSeq(l, 1, SkipWhile(l, 1, {l[1]}) - 1)
\* the lines ls, each followed by a newline
Block(ls) == Join(ls \o << <<>> >>, <<NL>>)
LastCall(cs) == cs[Len(cs)]
Spliced1 == Len(calls') = Len(calls) + 1

\* ---- C1
FenceIdx(ls) == {k \in 1..Len(ls) : IsFenceLine(ls[k])}
AfterLine(ls, k) == Join(SubSeq(ls, k + 1, Len(ls)), <<NL>>)
C1Rendered(ls, k) ==
    /\ Len(stash) = 1
    /\ Len(calls) = 1
    /\ Occurs(text, Placeholder(0)) = 1
    /\ FenceCount(text) = 0
    /\ calls[1].code = AfterLine(ls, k)

\* C1: an input whose only fence line is an opening fence with no closing
\* fence below it yields exactly one rendered block (one store, one
\* placeholder, no fence line left), whose body is everything after the
\* opening fence line up to the end of the input, whatever the input ends with.
C1_UnclosedFenceRendered ==
    (pc = "done" /\ runs = 1 /\ Cardinality(FenceIdx(lines)) = 1)
        => C1Rendered(lines, Min(FenceIdx(lines)))

\* ---- C5
\* C5: run() on the output of a completed run() is a no-op: no region, no
\* repair, no store, and the lines are returned unchanged.
C5_Idempotent ==
    (pc = "done" /\ runs = 2)
        => (ret = lines /\ calls = <<>> /\ fence.start = 0
            /\ Len(stash) = stored0)

\* ---- C2
C2Lines(ls, oi, ci, c) ==
    /\ oi < ci
    /\ Marker(ls[oi]) = c.fence
    /\ Marker(ls[ci]) = c.fence
    /\ IsCloseLine(ls[ci], c.fence)
    /\ \A k \in (oi + 1)..(ci - 1) : ~IsCloseLine(ls[k], c.fence)
    /\ c.code = Block(SubSeq(ls, oi + 1, ci - 1))
C2Region(t, c) == C2Lines(Split(t, <<NL>>), LineOf(t, c.start), LineOf(t, c.end), c)

\* C2: a region is closed by the nearest line below its opening line whose
\* marker is identical (same character, same run length) to the opening
\* marker; every line between them, runs of the other character and shorter
\* or longer runs of the same character included, is the body handed to the
\* formatter, verbatim.
C2_ClosedByIdenticalMarker == [][Spliced1 => C2Region(text, LastCall(calls'))]_vars

\* a four-tilde region whose body holds a three-tilde line and a line of the
\* other fence character
C2_Witness ==
    \E k \in 1..Len(calls) :
        /\ calls[k].fence = Tilde4
        /\ calls[k].code = Block(<<Tilde3, Tick3>>)

\* ---- C8
TokenEnd(c) == c.start + Len(c.out) + 1
C8Frame(t, u, c) ==
    u = SubSeq(t, 1, c.start - 1) \o <<NL>> \o c.out \o <<NL>>
            \o SubSeq(t, c.end + 1, Len(t))
C8Single(u, c) ==
    /\ u[c.start] = NL
    /\ u[TokenEnd(c)] = NL
    /\ c.start > 1 => u[c.start - 1] # NL
    /\ TokenEnd(c) < Len(u) => u[TokenEnd(c) + 1] # NL
C8Blank(u, c) ==
    /\ u[c.start] = NL
    /\ u[TokenEnd(c)] = NL
    /\ c.start > 1 => u[c.start - 1] = NL
    /\ TokenEnd(c) < Len(u) => u[TokenEnd(c) + 1] = NL

\* C8 as stated: a splice replaces exactly the matched span and leaves exactly
\* one newline between the token and the text on either side of it.
C8_OneNewlineEachSide ==
    [][Spliced1 => C8Frame(text, text', LastCall(calls'))
                   /\ C8Single(text', LastCall(calls'))]_vars

\* C8 amended: a splice replaces exactly the matched span, the text before
\* and after it unchanged, and puts one newline before and one after the
\* token; the text before the span ends with a newline and the text after
\* it begins with one, so where there is text on a side two newlines (a
\* blank line) separate the token from it.
C8_BlankLineEachSide ==
    [][Spliced1 => C8Frame(text, text', LastCall(calls'))
                   /\ C8Blank(text', LastCall(calls'))]_vars

\* a splice with text on both sides of the token
C8_Witness ==
    /\ pc = "loop"
    /\ calls # <<>>
    /\ LastCall(calls).start > 1
    /\ TokenEnd(LastCall(calls)) < Len(text)

\* ---- C9
C9Ordered(cs) == \A k \in 2..Len(cs) : cs[k].start > cs[k - 1].start
C9Clean(t, c) == \A i \in FenceLines(t) : i >= c.start

\* C9 as stated: after a splice at p no fence line is left before p, and no
\* later match, of the loop or of the repair pass, starts before p.
C9_NothingBeforeSplice ==
    /\ C9Ordered(calls)
    /\ (pc = "loop" /\ calls # <<>>) => C9Clean(text, LastCall(calls))

C9Step(t, u, c, d) ==
    /\ d.start > TokenEnd(c)
    /\ SubSeq(u, 1, TokenEnd(c)) = SubSeq(t, 1, TokenEnd(c))

\* C9 amended: within the scan loop regions are consumed front to back: each
\* loop iteration matches a region that starts after the token the previous
\* iteration spliced in, and leaves the text up to that token unchanged.
\* (Opening fence lines without a close may stay before a splice point, and
\* the repair pass may then match a region that starts before it.)
C9_LoopFrontToBack ==
    [][(pc = "loop" /\ calls # <<>> /\ Spliced1)
          => C9Step(text, text', LastCall(calls), LastCall(calls'))]_vars

\* two regions replaced by the loop
C9_Witness == Len(calls) >= 2 /\ calls[2].phase = "loop"

\* ---- C3
\* the line l can open a region: the head of the patterns, then spaces only
IsOpenLine(l) ==
    /\ FenceHead(l, 1).start # 0
    /\ Spaces(SubSeq(l, FenceHead(l, 1).rest, Len(l)))
\* the regions of the lines ls, read line by line from line k: open is the
\* marker of the region being read (empty outside of a region), tag its
\* lang, acc the langs of the regions closed so far
RECURSIVE Regions(_, _, _, _, _)
Regions(ls, k, open, tag, acc) ==
    IF k > Len(ls) THEN [ok |-> open = <<>>, tags |-> acc]
    ELSE IF open = <<>>
         THEN IF IsOpenLine(ls[k])
              THEN Regions(ls, k + 1, Marker(ls[k]), FenceHead(ls[k], 1).lang, acc)
              ELSE Regions(ls, k + 1, <<>>, <<>>, acc)
         ELSE IF IsCloseLine(ls[k], open)
              THEN Regions(ls, k + 1, <<>>, <<>>, Append(acc, tag))
              ELSE Regions(ls, k + 1, open, tag, acc)
RegionsOf(ls) == Regions(ls, 1, <<>>, <<>>, <<>>)
IsQuoteTag(g) == g \in {QUOTE, QUOTED}
Pos(t, sub) ==
    Min({i \in 1..(Len(t) - Len(sub) + 1) : SubSeq(t, i, i + Len(sub) - 1) = sub})
C3Stored(sc, code) ==
    /\ Len(sc) = Len(code)
    /\ Len(stash) = Len(code)
    /\ Occurs(text, <<STX>>) = Len(code)
    /\ \A k \in 1..Len(sc) : sc[k].key = k /\ sc[k].lang = code[k]
    /\ \A k \in 1..Len(code) : Occurs(text, Placeholder(k - 1)) = 1
    /\ \A k \in 2..Len(code) :
           Pos(text, Placeholder(k - 2)) < Pos(text, Placeholder(k - 1))
C3Rendered(tags) ==
    /\ FenceCount(text) = 0
    /\ \A k \in 1..Len(ret) : ~IsOpenLine(ret[k])
    /\ Len(calls) = Len(tags)
    /\ \A k \in 1..Len(tags) : calls[k].lang = tags[k]
    /\ C3Stored(SelectSeq(calls, LAMBDA c : c.key # 0),
                SelectSeq(tags, LAMBDA g : ~IsQuoteTag(g)))

\* C3: for a well-formed input (every opening fence line is closed by an
\* identical marker line) the returned text holds no fence line, each region
\* is formatted once in document order, the regions whose tag is not quote or
\* quoted are stored once each, in document order, and each placeholder
\* occurs exactly once in the output, in that order.
C3_WellFormedRendered ==
    (pc = "done" /\ runs = 1 /\ RegionsOf(lines).ok)
        => C3Rendered(RegionsOf(lines).tags)

\* a well-formed input with a quote region and a stored region
C3_Witness ==
    /\ pc = "done" /\ runs = 1
    /\ RegionsOf(lines).ok
    /\ Len(RegionsOf(lines).tags) = 2
    /\ Len(stash) = 1

\* ---- C4
NonEmpty(ls) == SelectSeq(ls, LAMBDA l : l # <<>>)
C4Par(bl, ol, o) ==
    IF bl = <<>> THEN o = <<>>
    ELSE /\ Len(ol) = Len(bl)
         /\ \A j \in 1..Len(bl) : ol[j] = <<">", SP>> \o bl[j]
C4Pars(bp, op) ==
    /\ Len(op) = Len(bp)
    /\ \A i \in 1..Len(bp) :
           C4Par(NonEmpty(Split(bp[i], <<NL>>)), Split(op[i], <<NL>>), op[i])
C4Quoted(c) ==
    /\ c.key = 0
    /\ Occurs(c.out, <<STX>>) = Occurs(c.code, <<STX>>)
    /\ C4Pars(Split(c.code, <<NL, NL>>), Split(c.out, <<NL, NL>>))
    /\ c.code = <<"a", NL, NL, "a", NL>>
           => c.out = <<">", SP, "a", NL, NL, ">", SP, "a">>
C4Stores(cs) ==
    Len(stash) - stored0 = Len(SelectSeq(cs, LAMBDA c : ~IsQuoteTag(c.lang)))

\* C4: a region tagged quote or quoted stores nothing and yields no
\* placeholder; its replacement is the body cut into paragraphs at the
\* blank-line boundaries, each paragraph with its empty lines dropped and
\* its other lines prefixed "> ", the paragraphs joined by a blank line.
C4_QuoteMarkup ==
    /\ C4Stores(calls)
    /\ \A k \in 1..Len(calls) : IsQuoteTag(calls[k].lang) => C4Quoted(calls[k])

\* a quote region with two paragraphs
C4_Witness ==
    \E k \in 1..Len(calls) :
        /\ calls[k].lang = QUOTE
        /\ calls[k].code = <<"a", NL, NL, "a", NL>>

\* ---- C10
PhaseRank(p) ==
    CASE p = "loop" -> 3 [] p = "repair" -> 2 [] p = "final" -> 1 [] OTHER -> 0
\* the loop has made no more replacements than fence lines have gone
C10Bound ==
    pc = "loop" => Len(calls) + FenceCount(text) <= FenceCount(Join(lines, <<NL>>))
\* a step of one run() moves to a later phase or, staying in the loop,
\* leaves strictly fewer fence lines
C10Decreases ==
    \/ PhaseRank(pc') < PhaseRank(pc)
    \/ pc = "loop" /\ pc' = "loop" /\ FenceCount(text') < FenceCount(text)
C10Step ==
    /\ runs' = runs => C10Decreases
    /\ Spliced1 => FenceCount(LastCall(calls').out) = 0
    /\ (pc = "repair" /\ pc' = "final") => FenceCount(text') <= FenceCount(text) + 1
    /\ pc = "final" => (pc' = "done" /\ Len(calls') <= Len(calls) + 1)

\* C10: run() terminates: every step of a run moves on to a later phase
\* (loop, repair, final search, return) except an iteration of the scan loop
\* that stays in the loop, and such an iteration strictly reduces the
\* number of fence lines of the text (the token spliced in holds none, also
\* when a quote body holds fence lines), so the loop makes at most as many
\* replacements as the input has fence lines; the repair adds at most one
\* fence line and makes at most one more replacement before run() returns.
C10_Terminates == []C10Bound /\ [][C10Step]_vars

\* a quote region whose body holds a fence line has been replaced
C10_Witness ==
    \E k \in 1..Len(calls) :
        /\ calls[k].key = 0
        /\ calls[k].phase = "loop"
        /\ FenceCount(calls[k].code) > 0

\* ---- C6
Entities ==
    << <<"&", <<"&","a","m","p",";">> >>, <<"<", <<"&","l","t",";">> >>,
       <<">", <<"&","g","t",";">> >>, <<"\"", <<"&","q","u","o","t",";">> >> >>
StartsWith(x, pre) == Len(x) >= Len(pre) /\ SubSeq(x, 1, Len(pre)) = pre
\* one left-to-right pass that reads each entity back as its character
RECURSIVE Unescape(_)
Unescape(x) ==
    IF x = <<>> THEN <<>>
    ELSE IF \E e \in 1..4 : StartsWith(x, Entities[e][2])
         THEN LET e == CHOOSE e \in 1..4 : StartsWith(x, Entities[e][2])
              IN  <<Entities[e][1]>>
                      \o Unescape(SubSeq(x, Len(Entities[e][2]) + 1, Len(x)))
         ELSE <<Head(x)>> \o Unescape(Tail(x))
Specials(body) == Cardinality({i \in 1..Len(body) : body[i] \in {"&", "<", ">", "\""}})
C6Esc(x, body) ==
    /\ Unescape(x) = body
    /\ \A i \in 1..Len(x) : x[i] \notin {"<", ">", "\""}
    /\ Occurs(x, <<"&">>) = Specials(body)
C6Open(lang) ==
    <<"<","p","r","e",">","<","c","o","d","e">>
        \o (IF lang = <<>> THEN <<>>
            ELSE <<" ","c","l","a","s","s","=","\"">> \o lang \o <<"\"">>)
        \o <<">">>
C6Close == <<"<","/","c","o","d","e",">","<","/","p","r","e",">">>
C6Wrap(m, open, body) ==
    /\ Len(m) >= Len(open) + Len(C6Close)
    /\ SubSeq(m, 1, Len(open)) = open
    /\ SubSeq(m, Len(m) - Len(C6Close) + 1, Len(m)) = C6Close
    /\ C6Esc(SubSeq(m, Len(open) + 1, Len(m) - Len(C6Close)), body)

\* C6: without a highlighter the stored markup is the pre/code wrapper, with
\* the tag verbatim in a class attribute that is absent when the tag is
\* empty, around the body with each of its &, <, > and " escaped exactly
\* once: reading the entities back in one pass gives the body, no raw <, >
\* or " is left, and there is one ampersand per escaped character.
C6_EscapedOnce ==
    \A k \in 1..Len(calls) :
        (calls[k].key # 0 /\ ~registered)
            => C6Wrap(stash[calls[k].key], C6Open(calls[k].lang), calls[k].code)

\* a tagged region whose body holds text that reads like an entity
C6_Witness ==
    \E k \in 1..Len(calls) :
        /\ ~registered
        /\ calls[k].key # 0
        /\ calls[k].lang = <<"a">>
        /\ calls[k].code = <<"&", "l", "t", ";", NL, "<", "&", NL>>

C7Append(t, u, f) ==
    /\ f.start = Min(FenceLines(t))
    /\ f.fence = Marker(SubSeq(t, Min(FenceLines(t)), Len(t)))
    /\ \/ u = t \o f.fence
       \/ u = SubSeq(t, 1, Len(t) - 2) \o <<NL>> \o f.fence \o <<NL, NL>>
C7Match(t, u, f, c) ==
    /\ c.fence = f.fence
    /\ c.start <= f.start
    /\ c.start = f.start \/ c.start \notin FenceLines(t)
    /\ c.end \in {Len(t), Len(t) - 2}
    /\ FenceLines(t) \subseteq c.start..c.end
    /\ SubSeq(u, 1, c.start - 1) = SubSeq(t, 1, c.start - 1)
    /\ FenceCount(u) = 0

=============================================================================
